---- MODULE Spec2Model ----
(***************************************************************************)
(* DealTracker scraper (src/scraper.py): the three source adapters         *)
(* (scrape_stekkerstore, scrape_mediamarkt_outlet, scrape_bol_breezy) and  *)
(* the filter / sort / dedup stage of main().                              *)
(*                                                                         *)
(* main() runs the adapters one after the other, so the model has one      *)
(* program counter: `phase` is main()'s position and `pc` the position     *)
(* inside the adapter that is running.  The remote servers are the         *)
(* environment: every response (status, number of items, content of each   *)
(* item) is chosen nondeterministically from small sets.                   *)
(*                                                                         *)
(* Prices are held in euro cents (integers), so round(x, 2) is exact on    *)
(* them; a score is held times 1000, so that saving / 10 is an integer.   *)
(* Titles are strings, URLs are small numbers.                             *)
(***************************************************************************)
EXTENDS Integers, Sequences, FiniteSets, TLC

VARIABLES
    phase,        \* main(): "stekkerstore" | "mediamarkt" | "bol" | "pipeline" | "done"
    pc,           \* running adapter: "request" | "item" | "sleep" | "return"
    base,         \* scrape_stekkerstore: index of base_url in base_urls (1..4)
    page,         \* page / page_num of the running adapter
    found_any,    \* scrape_stekkerstore: found_any
    resp,         \* outcome of the last requests.get of the running adapter
    plen,         \* len(products) of the page being processed
    left,         \* products of that page the for loop has not visited yet
    seen_titles,  \* scrape_mediamarkt_outlet: seen_titles
    seen_ids,     \* scrape_bol_breezy: seen_ids
    deals,        \* the running adapter's deals list
    all_deals,    \* main(): all_deals
    unique_deals, \* main(): unique_deals, the list written to deals.json
    lastOp,       \* last of requests.get / time.sleep done by the running adapter
    item          \* RecSpec only: <<product>>, the product the for loop has just
                  \* handled; <<>> outside the loop and everywhere in Spec

vars == <<phase, pc, base, page, found_any, resp, plen, left, seen_titles,
          seen_ids, deals, all_deals, unique_deals, lastOp, item>>

----------------------------------------------------------------------------
(* Bounds of the model *)

\* deals emitted in one run, over the three adapters
MaxDeals == 2
\* products in one page; stands for limit=250 (stekkerstore), limit=100
\* (mediamarkt) and the size of a bol listing page
PageSize == 2
\* scrape_stekkerstore has no page cap: page numbers from MaxPageNo on are
\* identified (the number only goes into the URL)
MaxPageNo == 2

(* Program constants *)
NumBaseUrls == 4
MMMaxPages == 5
BolMaxPages == 4

\* parse_price returned None / the element is absent
NoPrice == -1
\* a Shopify price that float() rejects (ValueError)
BadNum == -2
\* no '(\d+)%' in the price-tax text: scraped_discount is None
NoPct == -1
\* no 'Retourdeal voor X' in the item text: retourdeal_match is None
NoMatch == -2

InStock == "Op voorraad"
SoldOut == "Uitverkocht"

----------------------------------------------------------------------------
(* Pure helpers *)

\* Python round(n / d) for n >= 0, d > 0: round half to even
PyRound(n, d) ==
    LET q == n \div d
        r == n % d
    IN  IF 2 * r > d THEN q + 1
        ELSE IF 2 * r = d THEN q + (q % 2)
        ELSE q

Min(a, b) == IF a <= b THEN a ELSE b

TitleCode(t) == CASE t = "" -> 0 [] t = "A" -> 1 [] OTHER -> 2

\* make_id: a deterministic function of (url, title); stands for the first
\* 32 bits of the md5 digest, injective on the URLs and titles of the model
make_id(url, title) == url * 3 + TitleCode(title)

\* round(((original - current) / original) * 100) if original > current else 0
ComputeDiscount(original, current) ==
    IF original > current THEN PyRound(100 * (original - current), original) ELSE 0

Deal(id, title, current, original, discount, source, stock) ==
    [id |-> id, title |-> title, currentPrice |-> current,
     originalPrice |-> original, discount |-> discount,
     source |-> source, stock |-> stock]

----------------------------------------------------------------------------
(* What the servers can send *)

\* a title after strip(); "" is a title of white space only
Titles == {"", "A"}

\* one variant of a Shopify product; compare_at_price 0 stands for null /
\* absent.  A variant without a usable price is dropped whatever its other
\* fields are, so one such variant per price stands for all of them; the
\* unavailable variant is the one with compare_at_price 100.00.
StekkerVariants ==
    {v \in [price : {BadNum, 0, 8000}, compare_at_price : {0, 5000, 10000, 16000},
            available : BOOLEAN] :
        /\ v.price \in {BadNum, 0} => (v.compare_at_price = 0 /\ v.available)
        /\ ~v.available => v.compare_at_price = 10000}

StekkerProducts ==
    [title : Titles, handle : {1},
     variants : {<<>>} \cup {<<v>> : v \in StekkerVariants}]

\* one '.product-layout' element: title_el is whether a title link exists,
\* price_old / price_new are parse_price of the two price elements and pct is
\* the number in front of '%' in the price-tax text.  An element without a
\* title link or without a current price is dropped whatever its other
\* fields are, so one such element stands for all of them; a percentage text
\* comes with no old price or with the old price 100.00.
MMProducts ==
    {p \in [title_el : BOOLEAN, title : Titles, href : {1},
            price_old : {NoPrice, 5000, 10000}, price_new : {NoPrice, 0, 8000},
            pct : {NoPct, 0, 20, 100}] :
        /\ ~p.title_el => (p.title = "" /\ p.price_new = NoPrice)
        /\ p.price_new \in {NoPrice, 0} => (p.price_old = NoPrice /\ p.pct = NoPct)
        /\ p.pct # NoPct => p.price_old \in {NoPrice, 10000}}

\* one bol product item: price / ref_price are parse_price of the price
\* elements, retourdeal is parse_price of the text after 'Retourdeal voor'
\* (NoPrice for a text without digits such as '.', 0 for '0,00')
BolProducts ==
    {p \in [title_el : BOOLEAN, title : Titles, href : {1},
            price : {NoPrice, 0, 8000, 25000}, ref_price : {NoPrice, 10000},
            retourdeal : {NoMatch, NoPrice, 0, 8000}] :
        /\ ~p.title_el => (p.title = "" /\ p.price = NoPrice)
        /\ p.price \in {NoPrice, 0} => (p.ref_price = NoPrice
                                        /\ p.retourdeal = NoMatch)}

\* outcome of one requests.get: a non-200 status, an exception (of the request
\* or of r.json()), or status 200 with n products
Outcomes ==
    {<<"status", 0>>, <<"exception", 0>>} \cup {<<"ok", n>> : n \in 0..PageSize}

----------------------------------------------------------------------------
(* The body of each adapter's `for product in products` loop *)

StekkerLink(handle) == 100 + handle
MMLink(href) == IF href = 0 THEN 0 ELSE 200 + href
BolLink(href) == IF href = 0 THEN 0 ELSE 300 + href

AnyAvailable(variants) == \E i \in 1..Len(variants) : variants[i].available

\* compare_price after `if compare_price <= 0 or compare_price <= current_price`
StekkerOriginal(compare, current) ==
    IF compare <= 0 \/ compare <= current THEN current ELSE compare

\* the deals (none or one) one Shopify product adds
StekkerExtract(product) ==
    IF product.variants = <<>> THEN <<>>
    ELSE LET variant == product.variants[1]
             current == variant.price
         IN  IF current = BadNum THEN <<>>
             ELSE IF current <= 0 THEN <<>>
             ELSE LET original == StekkerOriginal(variant.compare_at_price, current)
                  IN  <<Deal(make_id(StekkerLink(product.handle), product.title),
                             product.title, current, original,
                             ComputeDiscount(original, current), "stekkerstore",
                             IF AnyAvailable(product.variants) THEN InStock ELSE SoldOut)>>

\* original_price after `if not original_price:`; NoPrice when the division
\* by (1 - scraped_discount / 100) raises ZeroDivisionError
MMOriginal(price_old, current, pct) ==
    IF price_old # NoPrice /\ price_old # 0 THEN price_old
    ELSE IF pct # NoPct /\ pct > 0
         THEN IF pct = 100 THEN NoPrice ELSE PyRound(current * 100, 100 - pct)
         ELSE current

\* discount = scraped_discount if scraped_discount is not None else (...)
MMDiscount(original, current, pct) ==
    IF pct # NoPct THEN pct ELSE ComputeDiscount(original, current)

\* MMExtract that records the title only once the current price is known
MMExtract_KeyAfterPrice(product, seen) ==
    IF ~product.title_el THEN [deals |-> <<>>, seen |-> seen]
    ELSE IF product.title \in seen THEN [deals |-> <<>>, seen |-> seen]
    ELSE LET seen2 == seen \cup {product.title}
             current == product.price_new
             original == MMOriginal(product.price_old, current, product.pct)
         IN  IF current = NoPrice \/ current = 0 THEN [deals |-> <<>>, seen |-> seen]
             ELSE IF original = NoPrice THEN [deals |-> <<>>, seen |-> seen2]
             ELSE [deals |-> <<Deal(make_id(MMLink(product.href), product.title),
                                    product.title, current, original,
                                    MMDiscount(original, current, product.pct),
                                    "mediamarkt", InStock)>>,
                   seen |-> seen2]

\* the deals one mediamarkt product adds, and seen_titles after it
MMExtract(product, seen) ==
    IF ~product.title_el THEN [deals |-> <<>>, seen |-> seen]
    ELSE IF product.title \in seen THEN [deals |-> <<>>, seen |-> seen]
    ELSE LET seen2 == seen \cup {product.title}
             current == product.price_new
             original == MMOriginal(product.price_old, current, product.pct)
         IN  IF current = NoPrice \/ current = 0 THEN [deals |-> <<>>, seen |-> seen2]
             ELSE IF original = NoPrice THEN [deals |-> <<>>, seen |-> seen2]
             ELSE [deals |-> <<Deal(make_id(MMLink(product.href), product.title),
                                    product.title, current, original,
                                    MMDiscount(original, current, product.pct),
                                    "mediamarkt", InStock)>>,
                   seen |-> seen2]

\* BolOverride that also swaps when the deal price equals the current price
BolOverride_NotStrict(current, original, retourdeal) ==
    IF retourdeal # NoMatch /\ retourdeal # NoPrice /\ retourdeal # 0
       /\ retourdeal <= current
    THEN <<retourdeal, current>>
    ELSE <<current, original>>

\* <<current_price, original_price>> after the 'Retourdeal voor X' override
BolOverride(current, original, retourdeal) ==
    IF retourdeal # NoMatch /\ retourdeal # NoPrice /\ retourdeal # 0
       /\ retourdeal < current
    THEN <<retourdeal, current>>
    ELSE <<current, original>>

\* original_price after `if not original_price or original_price <= current_price`
BolOriginal(original, current) ==
    IF original = NoPrice \/ original = 0 \/ original <= current
    THEN current ELSE original

\* the deals one bol product adds, and seen_ids after it
BolExtract(product, seen) ==
    IF ~product.title_el THEN [deals |-> <<>>, seen |-> seen]
    ELSE LET deal_id == make_id(BolLink(product.href), product.title)
         IN  IF deal_id \in seen THEN [deals |-> <<>>, seen |-> seen]
             ELSE IF product.price = NoPrice \/ product.price = 0
                  THEN [deals |-> <<>>, seen |-> seen \cup {deal_id}]
             ELSE LET pair == BolOverride(product.price, product.ref_price,
                                          product.retourdeal)
                      current == pair[1]
                      original == BolOriginal(pair[2], current)
                  IN  [deals |-> <<Deal(deal_id, product.title, current, original,
                                        ComputeDiscount(original, current),
                                        "bol", InStock)>>,
                       seen |-> seen \cup {deal_id}]

----------------------------------------------------------------------------
(* main(): filter, sort, dedup *)

\* calculate_score, times 1000
calculate_score(deal) ==
    LET saving == deal.originalPrice - deal.currentPrice
        tier == IF deal.currentPrice > 50000 THEN 8000
                ELSE IF deal.currentPrice > 20000 THEN 5000
                ELSE IF deal.currentPrice > 10000 THEN 3000
                ELSE 0
        boost == IF deal.source = "stekkerstore" THEN 2000 ELSE 0
    IN  deal.discount * 2000 + Min(saving, 20000) + tier + boost

\* Keep without the stock test
Keep_NoStock(d) == d.discount > 0

\* the condition of the list comprehension `filtered`
Keep(d) == d.discount > 0 /\ d.stock # SoldOut

RECURSIVE Filter(_)
Filter(s) ==
    IF s = <<>> THEN <<>>
    ELSE IF Keep(Head(s)) THEN <<Head(s)>> \o Filter(Tail(s))
    ELSE Filter(Tail(s))

\* InsertByScore that puts d in front of the elements of equal score
RECURSIVE InsertByScore_Unstable(_, _)
InsertByScore_Unstable(d, sorted) ==
    IF sorted = <<>> THEN <<d>>
    ELSE IF calculate_score(Head(sorted)) > calculate_score(d)
         THEN <<Head(sorted)>> \o InsertByScore_Unstable(d, Tail(sorted))
         ELSE <<d>> \o sorted

\* where list.sort(key=calculate_score, reverse=True) puts d in a list that
\* is already sorted: behind every element whose score is not lower
RECURSIVE InsertByScore(_, _)
InsertByScore(d, sorted) ==
    IF sorted = <<>> THEN <<d>>
    ELSE IF calculate_score(Head(sorted)) >= calculate_score(d)
         THEN <<Head(sorted)>> \o InsertByScore(d, Tail(sorted))
         ELSE <<d>> \o sorted

\* filtered.sort(key=calculate_score, reverse=True): stable, descending
RECURSIVE SortByScoreFrom(_, _)
SortByScoreFrom(done, rest) ==
    IF rest = <<>> THEN done
    ELSE SortByScoreFrom(InsertByScore(Head(rest), done), Tail(rest))

SortByScore(s) == SortByScoreFrom(<<>>, s)

\* the loop over `filtered` that fills unique_deals
RECURSIVE DedupFrom(_, _, _)
DedupFrom(seen, out, rest) ==
    IF rest = <<>> THEN out
    ELSE IF Head(rest).id \in seen THEN DedupFrom(seen, out, Tail(rest))
    ELSE DedupFrom(seen \cup {Head(rest).id}, Append(out, Head(rest)), Tail(rest))

\* Dedup that never finds an id in seen_ids
Dedup_KeepAll(s) == s

Dedup(s) == DedupFrom({}, <<>>, s)

----------------------------------------------------------------------------
(* Control flow of the adapters *)

\* where scrape_stekkerstore goes when it leaves `while True` by a break
\* before the product loop: `if found_any: break`, else the next base_url
StekkerBreakPc(fa, b) == IF fa \/ b = NumBaseUrls THEN "return" ELSE "request"

\* after the product loop: `if len(products) < 250: break`, else page += 1
StekkerPagePc(n) == IF n < PageSize THEN "return" ELSE "sleep"

\* FetchPc that goes on to the next page after a failed fetch
FetchPc_Continue(o) ==
    IF o[1] = "ok" /\ o[2] > 0 THEN "item"
    ELSE IF o[1] = "ok" THEN "return" ELSE "sleep"

\* mediamarkt / bol: status != 200, an exception or no products: break
FetchPc(o) == IF o[1] = "ok" /\ o[2] > 0 THEN "item" ELSE "return"

\* the deals budget of the model: the servers stop sending valid items once
\* MaxDeals deals exist
Room(ds) == Len(all_deals) + Len(deals) + Len(ds) <= MaxDeals

Init ==
    /\ phase = "stekkerstore"
    /\ pc = "request"
    /\ base = 1
    /\ page = 1
    /\ found_any = FALSE
    /\ resp = "none"
    /\ plen = 0
    /\ left = 0
    /\ seen_titles = {}
    /\ seen_ids = {}
    /\ deals = <<>>
    /\ all_deals = <<>>
    /\ unique_deals = <<>>
    /\ lastOp = "none"
    /\ item = <<>>

\* scrape_stekkerstore: requests.get of one page, up to the product loop
StekkerFetch ==
    /\ phase = "stekkerstore"
    /\ pc = "request"
    /\ \E o \in Outcomes :
        /\ resp' = o[1]
        /\ IF o[1] = "ok" /\ o[2] > 0
           THEN /\ found_any' = TRUE
                /\ plen' = o[2]
                /\ left' = o[2]
                /\ pc' = "item"
                /\ UNCHANGED <<base, page>>
           ELSE /\ plen' = 0
                /\ left' = 0
                /\ pc' = StekkerBreakPc(found_any, base)
                /\ IF StekkerBreakPc(found_any, base) = "request"
                   THEN /\ base' = base + 1
                        /\ page' = 1
                        /\ found_any' = FALSE
                   ELSE UNCHANGED <<base, page, found_any>>
    /\ lastOp' = "request"
    /\ UNCHANGED <<phase, seen_titles, seen_ids, deals, all_deals, unique_deals, item>>

\* scrape_stekkerstore: one iteration of `for product in products`
StekkerProduct ==
    /\ phase = "stekkerstore"
    /\ pc = "item"
    /\ \E product \in StekkerProducts :
        /\ Room(StekkerExtract(product))
        /\ deals' = deals \o StekkerExtract(product)
    /\ left' = left - 1
    /\ pc' = IF left > 1 THEN "item" ELSE StekkerPagePc(plen)
    /\ UNCHANGED <<phase, base, page, found_any, resp, plen, seen_titles,
                   seen_ids, all_deals, unique_deals, lastOp, item>>

\* scrape_stekkerstore: page += 1; time.sleep(1)
StekkerSleep ==
    /\ item' = <<>>
    /\ phase = "stekkerstore"
    /\ pc = "sleep"
    /\ page' = IF page < MaxPageNo THEN page + 1 ELSE page
    /\ lastOp' = "sleep"
    /\ pc' = "request"
    /\ UNCHANGED <<phase, base, found_any, resp, plen, left, seen_titles,
                   seen_ids, deals, all_deals, unique_deals>>

\* main(): all_deals.extend(stekker_deals); time.sleep(2); then the call of
\* scrape_mediamarkt_outlet(max_pages=5) up to its first request
StekkerReturn ==
    /\ item' = <<>>
    /\ phase = "stekkerstore"
    /\ pc = "return"
    /\ all_deals' = all_deals \o deals
    /\ phase' = "mediamarkt"
    /\ pc' = "request"
    /\ base' = 1
    /\ page' = 0
    /\ found_any' = FALSE
    /\ resp' = "none"
    /\ plen' = 0
    /\ left' = 0
    /\ deals' = <<>>
    /\ lastOp' = "none"
    /\ UNCHANGED <<seen_titles, seen_ids, unique_deals>>

\* scrape_mediamarkt_outlet: requests.get of one page, up to the product loop
MMFetch ==
    /\ phase = "mediamarkt"
    /\ pc = "request"
    /\ \E o \in Outcomes :
        /\ resp' = o[1]
        /\ plen' = IF FetchPc(o) = "item" THEN o[2] ELSE 0
        /\ left' = IF FetchPc(o) = "item" THEN o[2] ELSE 0
        /\ pc' = FetchPc(o)
    /\ lastOp' = "request"
    /\ UNCHANGED <<phase, base, page, found_any, seen_titles, seen_ids, deals,
                   all_deals, unique_deals, item>>

\* scrape_mediamarkt_outlet: one iteration of `for product in products`;
\* record says whether the loop variable is kept in item
MMProductStep(record) ==
    /\ phase = "mediamarkt"
    /\ pc = "item"
    /\ \E product \in MMProducts :
        /\ Room(MMExtract(product, seen_titles).deals)
        /\ deals' = deals \o MMExtract(product, seen_titles).deals
        /\ item' = IF record THEN <<product>> ELSE <<>>
        /\ seen_titles' = MMExtract(product, seen_titles).seen
    /\ left' = left - 1
    /\ pc' = IF left > 1 THEN "item" ELSE "sleep"
    /\ UNCHANGED <<phase, base, page, found_any, resp, plen, seen_ids,
                   all_deals, unique_deals, lastOp>>

MMProduct == MMProductStep(FALSE)

MMProductRec == MMProductStep(TRUE)

\* scrape_mediamarkt_outlet: time.sleep(2), then the next page_num of
\* range(0, max_pages) or the end of the loop
MMSleep ==
    /\ item' = <<>>
    /\ phase = "mediamarkt"
    /\ pc = "sleep"
    /\ lastOp' = "sleep"
    /\ IF page + 1 < MMMaxPages
       THEN page' = page + 1 /\ pc' = "request"
       ELSE page' = page /\ pc' = "return"
    /\ UNCHANGED <<phase, base, found_any, resp, plen, left, seen_titles,
                   seen_ids, deals, all_deals, unique_deals>>

\* main(): all_deals.extend(mm_deals); time.sleep(2); then the call of
\* scrape_bol_breezy(max_pages=4) up to its first request
MMReturn ==
    /\ item' = <<>>
    /\ phase = "mediamarkt"
    /\ pc = "return"
    /\ all_deals' = all_deals \o deals
    /\ phase' = "bol"
    /\ pc' = "request"
    /\ page' = 1
    /\ resp' = "none"
    /\ plen' = 0
    /\ left' = 0
    /\ seen_titles' = {}
    /\ deals' = <<>>
    /\ lastOp' = "none"
    /\ UNCHANGED <<base, found_any, seen_ids, unique_deals>>

\* scrape_bol_breezy: requests.get of one page, up to the product loop
BolFetch ==
    /\ phase = "bol"
    /\ pc = "request"
    /\ \E o \in Outcomes :
        /\ resp' = o[1]
        /\ plen' = IF FetchPc(o) = "item" THEN o[2] ELSE 0
        /\ left' = IF FetchPc(o) = "item" THEN o[2] ELSE 0
        /\ pc' = FetchPc(o)
    /\ lastOp' = "request"
    /\ UNCHANGED <<phase, base, page, found_any, seen_titles, seen_ids, deals,
                   all_deals, unique_deals, item>>

\* scrape_bol_breezy: one iteration of `for product in products`;
\* record says whether the loop variable is kept in item
BolProductStep(record) ==
    /\ phase = "bol"
    /\ pc = "item"
    /\ \E product \in BolProducts :
        /\ Room(BolExtract(product, seen_ids).deals)
        /\ deals' = deals \o BolExtract(product, seen_ids).deals
        /\ item' = IF record THEN <<product>> ELSE <<>>
        /\ seen_ids' = BolExtract(product, seen_ids).seen
    /\ left' = left - 1
    /\ pc' = IF left > 1 THEN "item" ELSE "sleep"
    /\ UNCHANGED <<phase, base, page, found_any, resp, plen, seen_titles,
                   all_deals, unique_deals, lastOp>>

BolProduct == BolProductStep(FALSE)

BolProductRec == BolProductStep(TRUE)

\* scrape_bol_breezy: time.sleep(3), then the next page of
\* range(1, max_pages + 1) or the end of the loop
BolSleep ==
    /\ item' = <<>>
    /\ phase = "bol"
    /\ pc = "sleep"
    /\ lastOp' = "sleep"
    /\ IF page < BolMaxPages
       THEN page' = page + 1 /\ pc' = "request"
       ELSE page' = page /\ pc' = "return"
    /\ UNCHANGED <<phase, base, found_any, resp, plen, left, seen_titles,
                   seen_ids, deals, all_deals, unique_deals>>

\* main(): all_deals.extend(bol_deals)
BolReturn ==
    /\ item' = <<>>
    /\ phase = "bol"
    /\ pc = "return"
    /\ all_deals' = all_deals \o deals
    /\ phase' = "pipeline"
    /\ pc' = "return"
    /\ page' = 0
    /\ resp' = "none"
    /\ plen' = 0
    /\ left' = 0
    /\ seen_ids' = {}
    /\ deals' = <<>>
    /\ lastOp' = "none"
    /\ UNCHANGED <<base, found_any, seen_titles, unique_deals>>

\* main(): filter, sort by score, deduplicate by id, save
Pipeline ==
    /\ phase = "pipeline"
    /\ unique_deals' = Dedup(SortByScore(Filter(all_deals)))
    /\ phase' = "done"
    /\ UNCHANGED <<pc, base, page, found_any, resp, plen, left, seen_titles,
                   seen_ids, deals, all_deals, lastOp, item>>

Next ==
    \/ StekkerFetch
    \/ StekkerProduct
    \/ StekkerSleep
    \/ StekkerReturn
    \/ MMFetch
    \/ MMProduct
    \/ MMSleep
    \/ MMReturn
    \/ BolFetch
    \/ BolProduct
    \/ BolSleep
    \/ BolReturn
    \/ Pipeline

Spec == Init /\ [][Next]_vars

\* main() is one sequential run: whatever step is next is taken
FairSpec == Spec /\ WF_vars(Next)

\* the part of the state that is the same at every adapter call of a run in
\* which the earlier adapters returned no deals
FreshCall ==
    /\ pc = "request"
    /\ base = 1
    /\ found_any = FALSE
    /\ resp = "none"
    /\ plen = 0
    /\ left = 0
    /\ seen_titles = {}
    /\ seen_ids = {}
    /\ deals = <<>>
    /\ all_deals = <<>>
    /\ unique_deals = <<>>
    /\ lastOp = "none"
    /\ item = <<>>

\* main() at the call of scrape_mediamarkt_outlet (the state StekkerReturn
\* leaves) or of scrape_bol_breezy (the state MMReturn leaves)
InitCall ==
    /\ FreshCall
    /\ \/ phase = "mediamarkt" /\ page = 0
       \/ phase = "bol" /\ page = 1

RecNext ==
    \/ MMFetch
    \/ MMProductRec
    \/ MMSleep
    \/ BolFetch
    \/ BolProductRec
    \/ BolSleep

\* one call of the mediamarkt or of the bol adapter, from its first request
\* to its return, with the loop variable `product` kept in item
RecSpec == InitCall /\ [][RecNext]_vars

----------------------------------------------------------------------------
(* Properties *)

Adapters == {"stekkerstore", "mediamarkt", "bol"}
Failures == {"status", "exception"}

\* every deal an adapter has emitted so far in this run
Emitted == {all_deals[k] : k \in 1..Len(all_deals)} \cup {deals[k] : k \in 1..Len(deals)}

\* the positions of all_deals that pass the filter of main()
Passing == {k \in 1..Len(all_deals) :
               all_deals[k].discount > 0 /\ all_deals[k].stock # SoldOut}

Out == 1..Len(unique_deals)

\* the first position of deal d in all_deals
FirstIndex(d) ==
    CHOOSE k \in 1..Len(all_deals) :
        all_deals[k] = d /\ \A m \in 1..(k - 1) : all_deals[m] # d

\* C1: in the final output no two deals share an id, every id of a deal that
\* passes the filter occurs in it, and the deal kept for an id passes the
\* filter and has the highest score among the passing deals of that id.
C1_UniqueIdsBestScore ==
    phase = "done" =>
        /\ \A i, j \in Out : i # j => unique_deals[i].id # unique_deals[j].id
        /\ \A k \in Passing : \E i \in Out : unique_deals[i].id = all_deals[k].id
        /\ \A i \in Out :
            /\ \E k \in Passing : all_deals[k] = unique_deals[i]
            /\ \A k \in Passing :
                all_deals[k].id = unique_deals[i].id =>
                    calculate_score(all_deals[k]) <= calculate_score(unique_deals[i])

\* C1 witness: a finished run in which two passing deals share an id and
\* differ in score
C1_Witness ==
    /\ phase = "done"
    /\ \E k, m \in Passing :
        /\ all_deals[k].id = all_deals[m].id
        /\ calculate_score(all_deals[k]) < calculate_score(all_deals[m])
        /\ k < m

\* C2: every deal of the final output has discount > 0 and is in stock.
C2_OnlyDiscountedInStock ==
    phase = "done" =>
        \A i \in Out : unique_deals[i].discount > 0 /\ unique_deals[i].stock = InStock

\* C2 witness: a finished run whose input held a sold-out deal with a
\* discount and whose output is not empty
C2_Witness ==
    /\ phase = "done"
    /\ \E k \in 1..Len(all_deals) : all_deals[k].stock = SoldOut /\ all_deals[k].discount > 0
    /\ unique_deals # <<>>

\* C3: the final output is ordered by non-increasing score, and two output
\* deals of equal score are in the order in which they first occur in the
\* concatenated adapter results.
C3_SortedStable ==
    phase = "done" =>
        \A i, j \in Out :
            i < j =>
                /\ calculate_score(unique_deals[i]) >= calculate_score(unique_deals[j])
                /\ calculate_score(unique_deals[i]) = calculate_score(unique_deals[j])
                       => FirstIndex(unique_deals[i]) < FirstIndex(unique_deals[j])

\* C3 witness: a finished run whose output holds two deals of equal score
C3_Witness ==
    /\ phase = "done"
    /\ \E i, j \in Out :
        i < j /\ calculate_score(unique_deals[i]) = calculate_score(unique_deals[j])

\* C4 (as claimed): no emitted deal has a negative discount, and every
\* emitted deal whose originalPrice is not below its currentPrice has discount
\* = round(100 * (originalPrice - currentPrice) / originalPrice), which is 0
\* when the two prices are equal.
C4_DiscountFormula ==
    \A d \in Emitted :
        /\ d.discount >= 0
        /\ (d.originalPrice >= d.currentPrice /\ d.originalPrice > 0) =>
               d.discount = PyRound(100 * (d.originalPrice - d.currentPrice),
                                    d.originalPrice)

\* C5 (as claimed): every emitted deal has currentPrice > 0 and
\* originalPrice >= currentPrice.
C5_PriceOrder ==
    \A d \in Emitted : d.currentPrice > 0 /\ d.originalPrice >= d.currentPrice

\* C6 (as claimed): every emitted deal has a non-empty title.
C6_TitleNonEmpty == \A d \in Emitted : d.title # ""

\* C7 (as claimed): after a page with status 200 that holds no items or
\* fewer items than the page size, the adapter requests no further page of
\* the listing it is paginating (for stekkerstore: of the same base_url).
C7_StopAtShortPage ==
    [][/\ (pc = "request" /\ resp' = "ok" /\ plen' = 0)
            => ~(pc' = "request" /\ base' = base)
       /\ (pc = "sleep" /\ plen < PageSize)
            => ~(pc' = "request" /\ base' = base)]_vars

\* C8 (as claimed): whatever the servers return, every adapter stops after a
\* bounded number of page requests, so the run reaches its end.
C8_Terminates == <>(phase = "done")

\* C9 (as claimed): when a page fetch fails the adapter issues no further
\* request and returns exactly the deals collected so far.
C9_StopOnFailure ==
    [][(pc = "request" /\ resp' \in Failures) =>
           (pc' = "return" /\ deals' = deals)]_vars

\* C9 (amended): when a page fetch fails the deals collected so far are kept;
\* mediamarkt and bol stop; stekkerstore stops too, unless the failing page is
\* the first page of a collection URL that is not the last one, and then it
\* requests page 1 of the next collection URL.  main() appends what the
\* adapter returns to all_deals and goes on to the next adapter.
C9_StopOnFailureOrNextCollection ==
    [][/\ (pc = "request" /\ resp' \in Failures) =>
            /\ deals' = deals
            /\ all_deals' = all_deals
            /\ IF phase = "stekkerstore" /\ page = 1 /\ base < NumBaseUrls
               THEN pc' = "request" /\ base' = base + 1 /\ page' = 1
               ELSE pc' = "return"
       /\ (pc = "return" /\ phase \in Adapters) =>
            /\ all_deals' = all_deals \o deals
            /\ phase' # phase
            /\ phase' \in (Adapters \cup {"pipeline"})]_vars

\* C9 witness: an adapter has stopped on a failed fetch of a later page and
\* holds the deals of the earlier pages
C9_Witness ==
    /\ phase \in Adapters
    /\ pc = "return"
    /\ resp \in Failures
    /\ deals # <<>>

\* C10 (as claimed): an adapter never issues a request right after its
\* previous request, without a time.sleep in between.
C10_SleepBetweenRequests ==
    (phase \in Adapters /\ pc = "request") => lastOp # "request"


----------------------------------------------------------------------------
(* Properties of one adapter call (RecSpec) *)

\* the step is an iteration of the product loop that appends a deal
Emits == pc = "item" /\ Len(deals') = Len(deals) + 1

\* the prices a bol item gets when no deal price overrides them: the
\* extracted current price, and the reference price if it is above it
BolPlainPrices(p, d) ==
    /\ d.currentPrice = p.price
    /\ d.originalPrice = IF p.ref_price # NoPrice /\ p.ref_price > p.price
                         THEN p.ref_price ELSE p.price

\* the prices a bol item gets when the deal price overrides them
BolDealPrices(p, d) ==
    d.currentPrice = p.retourdeal /\ d.originalPrice = p.price

ItemKey(p) ==
    IF phase = "mediamarkt" THEN p.title ELSE make_id(BolLink(p.href), p.title)

DealKey(d) == IF phase = "mediamarkt" THEN d.title ELSE d.id

\* C12: in one call of the mediamarkt adapter (key: title) and of the bol
\* adapter (key: id) no two emitted deals share a key; the key of every item
\* that has a title element is in the seen set once the item is handled, be
\* it emitted or dropped; a key is never removed; an item whose key is
\* already in the seen set adds no deal, whatever its prices; and an item
\* that adds a deal had an unseen key, which is the key of the deal.
C12_FirstItemPerKey ==
    [][LET before == IF phase = "mediamarkt" THEN seen_titles ELSE seen_ids
           after == IF phase = "mediamarkt" THEN seen_titles' ELSE seen_ids'
       IN  /\ \A i, j \in 1..Len(deals') :
                i # j => DealKey(deals'[i]) # DealKey(deals'[j])
           /\ before \subseteq after
           /\ (pc = "item" /\ item'[1].title_el) =>
                /\ ItemKey(item'[1]) \in after
                /\ ItemKey(item'[1]) \in before => deals' = deals
           /\ Emits =>
                /\ item'[1].title_el
                /\ ItemKey(item'[1]) \notin before
                /\ DealKey(deals'[Len(deals')]) = ItemKey(item'[1])]_vars

\* C12 witness: the mediamarkt loop has just dropped an item with a valid
\* price whose title is in seen_titles although no deal has that title: the
\* first item of that title was dropped for its price
C12_Witness ==
    /\ phase = "mediamarkt"
    /\ item # <<>>
    /\ item[1].title_el
    /\ item[1].price_new = 8000
    /\ item[1].pct = NoPct
    /\ item[1].title \in seen_titles
    /\ \A i \in 1..Len(deals) : deals[i].title # item[1].title

====
